---- MODULE Spec2Model ----
(***************************************************************************)
(* CSV-SQL streaming loader: the type lattice and type inference           *)
(* (types.rs), the column schema and the table-name validation             *)
(* (schema.rs), the row batcher and the retrying batch processor           *)
(* (db/batch.rs), the COPY loader and its CSV encoding (db/copy.rs), the   *)
(* CSV reader wrapper (parser.rs) and the run() pipeline (main.rs).        *)
(*                                                                         *)
(* A string is the sequence of its characters. Eight specifications share  *)
(* the variables:                                                          *)
(*   Spec         run(): input checks, inference pass, reset, load pass    *)
(*   SpecLoader   one BatchProcessor::process_batch call on any batch      *)
(*   SpecBatcher  a BatchIterator over any row source, next() called       *)
(*                repeatedly                                               *)
(*   SpecMerge    SqlType::merge on any three tags                         *)
(*   SpecColumn   a ColumnSchema updated with any values, then finalized   *)
(*   SpecInfer    one field value: infer_from_str, then rows_to_csv        *)
(*   SpecName     validate_table_name on any name                          *)
(*   SpecEncode   rows_to_csv on any batch                                 *)
(***************************************************************************)
EXTENDS Integers, Sequences, FiniteSets, TLC

\* ------------------------------------------------------------------ bounds

\* Physical records in the CSV file (header included when there is one).
MaxRows == 3
\* Largest --sample-size tried.
MaxSample == 2
\* Largest --batch-size tried.
MaxBatch == 2
\* Largest max_retries tried by SpecLoader.
MaxRetries == 2
\* Largest --max-retries tried by Spec.
MaxRunRetries == 1
\* Largest initial_backoff tried by SpecLoader (time units).
MaxInitialBackoff == 3
\* Largest max_backoff tried by SpecLoader (time units).
MaxMaxBackoff == 4
\* Rows in the batch handed to process_batch by SpecLoader.
MaxBatchRows == 2
\* next() calls a consumer of BatchIterator makes in SpecBatcher.
MaxCalls == 4
\* Columns of the schema; file rows have this many fields.
NumColumns == 2
\* Values one column observes in SpecColumn.
MaxObserved == 3
\* Characters of a field value in SpecInfer.
MaxValueLen == 4
\* Characters of a table name in SpecName.
MaxNameLen == 4
\* Characters of a field in SpecEncode.
MaxFieldLen == 1
\* Rows of a batch in SpecEncode.
MaxEncodedRows == 2

\* --------------------------------------------------------------- constants

\* BatchConfig::default(): initial_backoff 1 s, max_backoff 60 s.
DefaultInitialBackoff == 1
DefaultMaxBackoff == 60

\* The value shown when no row count is shown.
NoRows == 0 - 1

Min(a, b) == IF a <= b THEN a ELSE b

\* -------------------------------------------------------------- types.rs

Tags ==
    {"Null", "Boolean", "SmallInt", "Integer", "BigInt", "Real",
     "DoublePrecision", "Timestamp", "Date", "Text"}

IntTags == {"SmallInt", "Integer", "BigInt"}
FloatTags == {"Real", "DoublePrecision"}

\* A merge whose int/float arm looks at the left operand only.
MergeOneSided(a, b) ==
    IF a = "Text" \/ b = "Text" THEN "Text"
    ELSE IF a = "Null" THEN b
    ELSE IF b = "Null" THEN a
    ELSE IF a = b THEN a
    ELSE IF a \in IntTags /\ b \in IntTags
        THEN (IF "BigInt" \in {a, b} THEN "BigInt" ELSE "Integer")
    ELSE IF a \in IntTags /\ b \in FloatTags THEN "DoublePrecision"
    ELSE IF a \in FloatTags /\ b \in IntTags THEN a
    ELSE IF a \in FloatTags /\ b \in FloatTags THEN "DoublePrecision"
    ELSE IF {a, b} = {"Date", "Timestamp"} THEN "Timestamp"
    ELSE "Text"

\* A merge that promotes an integer with a float to the float it met.
MergeNarrowFloat(a, b) ==
    IF a = "Text" \/ b = "Text" THEN "Text"
    ELSE IF a = "Null" THEN b
    ELSE IF b = "Null" THEN a
    ELSE IF a = b THEN a
    ELSE IF a \in IntTags /\ b \in IntTags
        THEN (IF "BigInt" \in {a, b} THEN "BigInt" ELSE "Integer")
    ELSE IF a \in IntTags /\ b \in FloatTags THEN b
    ELSE IF a \in FloatTags /\ b \in IntTags THEN a
    ELSE IF a \in FloatTags /\ b \in FloatTags THEN "DoublePrecision"
    ELSE IF {a, b} = {"Date", "Timestamp"} THEN "Timestamp"
    ELSE "Text"

\* The derived Ord of SqlType: the position of a tag in the enum.
TagRank(t) ==
    CASE t = "Null" -> 0 [] t = "Boolean" -> 1 [] t = "SmallInt" -> 2
      [] t = "Integer" -> 3 [] t = "BigInt" -> 4 [] t = "Real" -> 5
      [] t = "DoublePrecision" -> 6 [] t = "Timestamp" -> 7 [] t = "Date" -> 8
      [] OTHER -> 9

\* A merge that returns the greater argument in the enum's order.
MergeMaxOfEnumOrder(a, b) == IF TagRank(a) >= TagRank(b) THEN a ELSE b

\* SqlType::merge: the match arms in the order of the source.
Merge(a, b) ==
    IF a = "Text" \/ b = "Text" THEN "Text"
    ELSE IF a = "Null" THEN b
    ELSE IF b = "Null" THEN a
    ELSE IF a = b THEN a
    ELSE IF (a = "SmallInt" /\ b = "Integer") \/ (a = "Integer" /\ b = "SmallInt")
        THEN "Integer"
    ELSE IF (a = "SmallInt" /\ b = "BigInt") \/ (a = "BigInt" /\ b = "SmallInt")
        THEN "BigInt"
    ELSE IF (a = "Integer" /\ b = "BigInt") \/ (a = "BigInt" /\ b = "Integer")
        THEN "BigInt"
    ELSE IF (a \in IntTags /\ b \in FloatTags) \/ (a \in FloatTags /\ b \in IntTags)
        THEN "DoublePrecision"
    ELSE IF (a = "Real" /\ b = "DoublePrecision") \/ (a = "DoublePrecision" /\ b = "Real")
        THEN "DoublePrecision"
    ELSE IF (a = "Date" /\ b = "Timestamp") \/ (a = "Timestamp" /\ b = "Date")
        THEN "Timestamp"
    ELSE IF a = "Boolean" \/ b = "Boolean" THEN "Text"
    ELSE IF (a \in {"Date", "Timestamp"} /\ b \in IntTags \cup FloatTags)
            \/ (a \in IntTags \cup FloatTags /\ b \in {"Date", "Timestamp"})
        THEN "Text"
    ELSE "Text"


\* ---------------------------------------------------------------- strings

\* A string is the sequence of its characters, each a one-character string.
\* u8::to_ascii_lowercase on the upper-case letters.
AsciiLower ==
    ("A" :> "a") @@ ("B" :> "b") @@ ("C" :> "c") @@ ("D" :> "d")
      @@ ("E" :> "e") @@ ("F" :> "f") @@ ("G" :> "g") @@ ("H" :> "h")
      @@ ("I" :> "i") @@ ("J" :> "j") @@ ("K" :> "k") @@ ("L" :> "l")
      @@ ("M" :> "m") @@ ("N" :> "n") @@ ("O" :> "o") @@ ("P" :> "p")
      @@ ("Q" :> "q") @@ ("R" :> "r") @@ ("S" :> "s") @@ ("T" :> "t")
      @@ ("U" :> "u") @@ ("V" :> "v") @@ ("W" :> "w") @@ ("X" :> "x")
      @@ ("Y" :> "y") @@ ("Z" :> "z")

\* The value of each decimal digit.
Digits ==
    ("0" :> 0) @@ ("1" :> 1) @@ ("2" :> 2) @@ ("3" :> 3) @@ ("4" :> 4)
      @@ ("5" :> 5) @@ ("6" :> 6) @@ ("7" :> 7) @@ ("8" :> 8) @@ ("9" :> 9)

IsUpper(c) == c \in DOMAIN AsciiLower
IsLower(c) == \E u \in DOMAIN AsciiLower : AsciiLower[u] = c
IsDigit(c) == c \in DOMAIN Digits
DigitValue(c) == Digits[c]

\* u8::to_ascii_lowercase on a character.
ToAsciiLower(c) == IF IsUpper(c) THEN AsciiLower[c] ELSE c

\* str::eq_ignore_ascii_case.
EqIgnoreAsciiCase(a, b) ==
    /\ Len(a) = Len(b)
    /\ \A i \in 1..Len(a) : ToAsciiLower(a[i]) = ToAsciiLower(b[i])

\* All strings of at most n characters of the alphabet.
StringsUpTo(alphabet, n) == UNION {[1..k -> alphabet] : k \in 0..n}

\* ------------------------------------------- types.rs: infer_from_str

\* str::parse::<bool>: the two lower-case words and nothing else.
ParsesBool(v) == v = <<"t", "r", "u", "e">> \/ v = <<"f", "a", "l", "s", "e">>

IsDigits(d) == d # <<>> /\ \A i \in 1..Len(d) : IsDigit(d[i])

RECURSIVE StripZeros(_)
StripZeros(d) ==
    IF d # <<>> /\ d[1] = "0" THEN StripZeros(Tail(d)) ELSE d

RECURSIVE LexLeq(_, _)
LexLeq(a, b) ==
    IF a = <<>> THEN TRUE
    ELSE IF DigitValue(a[1]) < DigitValue(b[1]) THEN TRUE
    ELSE IF DigitValue(a[1]) > DigitValue(b[1]) THEN FALSE
    ELSE LexLeq(Tail(a), Tail(b))

\* a <= b for two numerals without leading zeros.
DigitsLeq(a, b) == Len(a) < Len(b) \/ (Len(a) = Len(b) /\ LexLeq(a, b))

\* The largest magnitudes of i16, i32 and i64, positive and negative.
I16Max == <<"3", "2", "7", "6", "7">>
I16Min == <<"3", "2", "7", "6", "8">>
I32Max == <<"2", "1", "4", "7", "4", "8", "3", "6", "4", "7">>
I32Min == <<"2", "1", "4", "7", "4", "8", "3", "6", "4", "8">>
I64Max ==
    <<"9", "2", "2", "3", "3", "7", "2", "0", "3", "6",
      "8", "5", "4", "7", "7", "5", "8", "0", "7">>
I64Min ==
    <<"9", "2", "2", "3", "3", "7", "2", "0", "3", "6",
      "8", "5", "4", "7", "7", "5", "8", "0", "8">>

\* An integer parser that accepts a numeral of any size.
ParsesIntAnyRange(v, max, min) ==
    LET signed == v # <<>> /\ v[1] \in {"+", "-"}
        body == IF signed THEN Tail(v) ELSE v
    IN  IsDigits(body)

\* str::parse for a signed integer type: an optional + or -, then one or
\* more digits, and the number within the type's range.
ParsesInt(v, max, min) ==
    LET signed == v # <<>> /\ v[1] \in {"+", "-"}
        body == IF signed THEN Tail(v) ELSE v
    IN  /\ IsDigits(body)
        /\ DigitsLeq(StripZeros(body), IF v[1] = "-" THEN min ELSE max)

RECURSIVE DigitsToNat(_)
DigitsToNat(d) ==
    IF d = <<>> THEN 0
    ELSE DigitsToNat(SubSeq(d, 1, Len(d) - 1)) * 10 + DigitValue(d[Len(d)])

\* The value of an exponent's digits; anything of five digits or more is
\* beyond every float's range and stands as 99999.
ExponentValue(d) ==
    LET z == StripZeros(d)
    IN  IF Len(z) > 4 THEN 99999 ELSE DigitsToNat(z)

\* The first nine significant digits of a numeral, as a number.
LeadNine(d) ==
    DigitsToNat([i \in 1..9 |-> IF i <= Len(d) THEN d[i] ELSE "0"])

\* str::parse for f32 and f64 reads the same grammar: an optional sign, then
\* inf, infinity or nan in any case, or digits with at most one point and at
\* least one digit, then an optional exponent (e or E, an optional sign, one
\* or more digits). The result: whether it parsed, whether it is one of the
\* three words, whether it is zero, its decimal exponent (the number is
\* d.ddd * 10^exp10) and its first nine significant digits.
ParseFloat(v) ==
    LET signed == v # <<>> /\ v[1] \in {"+", "-"}
        body == IF signed THEN Tail(v) ELSE v
        es == {i \in 1..Len(body) : body[i] \in {"e", "E"}}
        k == IF es = {} THEN 0 ELSE CHOOSE i \in es : \A j \in es : i <= j
        mant == IF k = 0 THEN body ELSE SubSeq(body, 1, k - 1)
        ex == IF k = 0 THEN <<>> ELSE SubSeq(body, k + 1, Len(body))
        exsigned == ex # <<>> /\ ex[1] \in {"+", "-"}
        exbody == IF exsigned THEN Tail(ex) ELSE ex
        dots == {i \in 1..Len(mant) : mant[i] = "."}
        dot == IF dots = {} THEN Len(mant) + 1 ELSE CHOOSE i \in dots : TRUE
        digits == SubSeq(mant, 1, dot - 1) \o SubSeq(mant, dot + 1, Len(mant))
        sig == StripZeros(digits)
        e10 == IF k = 0 THEN 0
               ELSE IF ex[1] = "-" THEN 0 - ExponentValue(exbody)
               ELSE ExponentValue(exbody)
        word == \E w \in {<<"i", "n", "f">>, <<"n", "a", "n">>,
                          <<"i", "n", "f", "i", "n", "i", "t", "y">>} :
                    EqIgnoreAsciiCase(body, w)
        number == /\ Cardinality(dots) <= 1
                  /\ IsDigits(digits)
                  /\ k = 0 \/ IsDigits(exbody)
    IN  IF word
          THEN [ok |-> TRUE, word |-> TRUE, zero |-> FALSE, exp10 |-> 0, lead |-> 0]
        ELSE IF number
          THEN [ok |-> TRUE, word |-> FALSE, zero |-> sig = <<>>,
                exp10 |-> (dot - 2) - (Len(digits) - Len(sig)) + e10,
                lead |-> LeadNine(sig)]
        ELSE [ok |-> FALSE, word |-> FALSE, zero |-> FALSE, exp10 |-> 0, lead |-> 0]

\* `!f.is_infinite() && !f.is_nan()` on a parsed f32: the three words are
\* out, and so is a number that rounds past f32::MAX = 3.40282347e38. (Exact
\* for numerals of up to nine significant digits.)
FiniteF32(f) ==
    /\ ~f.word
    /\ f.zero \/ f.exp10 < 38 \/ (f.exp10 = 38 /\ f.lead <= 340282356)

\* The same on a parsed f64; f64::MAX = 1.7976931348623157e308.
FiniteF64(f) ==
    /\ ~f.word
    /\ f.zero \/ f.exp10 < 308 \/ (f.exp10 = 308 /\ f.lead <= 179769313)

\* is_timestamp and is_date try chrono's parsers on seven and on five
\* formats, each of which has two '-' or two '/' between numbers. The model
\* knows these strings; its other values have fewer than two '-' or '/', or
\* no digit between them, and match no format.
Timestamps ==
    {<<"2", "0", "2", "4", "-", "0", "1", "-", "1", "5", " ",
       "1", "0", ":", "3", "0", ":", "0", "0">>,
     <<"2", "0", "2", "4", "-", "0", "1", "-", "1", "5", "T",
       "1", "0", ":", "3", "0", ":", "0", "0">>}
Dates ==
    {<<"2", "0", "2", "4", "-", "0", "1", "-", "1", "5">>,
     <<"2", "0", "2", "4", "/", "0", "1", "/", "1", "5">>}

IsTimestamp(v) == v \in Timestamps
IsDate(v) == v \in Dates

\* SqlType::infer_from_str: the tests in the order of the source.
InferFromStr(v) ==
    IF \/ v = <<>>
       \/ EqIgnoreAsciiCase(v, <<"n", "u", "l", "l">>)
       \/ EqIgnoreAsciiCase(v, <<"\\", "N">>)
      THEN "Null"
    ELSE IF ParsesBool(v) THEN "Boolean"
    ELSE IF ParsesInt(v, I16Max, I16Min) THEN "SmallInt"
    ELSE IF ParsesInt(v, I32Max, I32Min) THEN "Integer"
    ELSE IF ParsesInt(v, I64Max, I64Min) THEN "BigInt"
    ELSE LET f == ParseFloat(v)
         IN  IF f.ok /\ FiniteF32(f) THEN "Real"
             ELSE IF f.ok /\ FiniteF64(f) THEN "DoublePrecision"
             ELSE IF IsTimestamp(v) THEN "Timestamp"
             ELSE IF IsDate(v) THEN "Date"
             ELSE "Text"

\* -------------------------------------------------------------- errors.rs

\* A LoaderError: its variant, BatchError's retries field, its payload.
LoaderError(kind, retries, message) ==
    [kind |-> kind, retries |-> retries, message |-> message]

NoError == LoaderError("none", 0, "")

\* The #[error("...")] format of each variant.
Display(e) ==
    CASE e.kind = "CsvError" -> "CSV parsing error: " \o e.message
      [] e.kind = "DatabaseError" -> "Database error: " \o e.message
      [] e.kind = "TypeConversionError" -> "Type conversion error: " \o e.message
      [] e.kind = "SchemaInferenceError" -> "Schema inference failed: " \o e.message
      [] e.kind = "ConnectionError" -> "Connection error: " \o e.message
      [] e.kind = "ConfigError" -> "Invalid configuration: " \o e.message
      [] e.kind = "EmptyFile" -> "Empty CSV file"
      [] e.kind = "InvalidTableName" -> "Invalid table name: " \o e.message
      [] e.kind = "FileNotFound" -> "File not found: " \o e.message
      [] e.kind = "BatchError" ->
            "Batch processing failed after " \o ToString(e.retries)
                \o " retries: " \o e.message
      [] OTHER -> ""


\* --------------------------------------------------------------- schema.rs

\* ColumnSchema::new, without the name.
ColumnSchemaNew ==
    [sql_type |-> "Null", nullable |-> TRUE, sample_count |-> 0, null_count |-> 0]

\* A column that takes the first non-null type it meets and keeps it.
ColumnSchemaUpdateFirstWins(c, v) ==
    LET inferred_type == InferFromStr(v)
    IN  [c EXCEPT !.sample_count = @ + 1,
                  !.null_count = IF inferred_type = "Null" THEN @ + 1 ELSE @,
                  !.sql_type = IF @ = "Null" THEN inferred_type ELSE @]

\* ColumnSchema::update.
ColumnSchemaUpdate(c, v) ==
    LET inferred_type == InferFromStr(v)
    IN  [c EXCEPT !.sample_count = @ + 1,
                  !.null_count = IF inferred_type = "Null" THEN @ + 1 ELSE @,
                  !.sql_type = Merge(@, inferred_type)]

\* A finalize that defaults the type and leaves nullable as new() set it.
ColumnSchemaFinalizeTypeOnly(c) ==
    [c EXCEPT !.sql_type = IF @ = "Null" THEN "Text" ELSE @]

\* ColumnSchema::finalize.
ColumnSchemaFinalize(c) ==
    [c EXCEPT !.sql_type = IF @ = "Null" THEN "Text" ELSE @,
              !.nullable = c.null_count > 0]

\* char::is_alphabetic and char::is_alphanumeric on the ASCII characters,
\* the only ones the model's names are made of.
IsAlphabetic(c) == IsUpper(c) \/ IsLower(c)
IsAlphanumeric(c) == IsAlphabetic(c) \/ IsDigit(c)

Keywords ==
    {<<"S", "E", "L", "E", "C", "T">>,
     <<"I", "N", "S", "E", "R", "T">>,
     <<"U", "P", "D", "A", "T", "E">>,
     <<"D", "E", "L", "E", "T", "E">>,
     <<"D", "R", "O", "P">>,
     <<"C", "R", "E", "A", "T", "E">>,
     <<"A", "L", "T", "E", "R">>,
     <<"E", "X", "E", "C">>}

\* A validation that rejects the keywords in upper case only.
ValidateTableNameCaseSensitive(name) ==
    IF name = <<>>
      THEN LoaderError("InvalidTableName", 0, "Table name cannot be empty")
    ELSE IF ~IsAlphabetic(name[1]) /\ name[1] # "_"
      THEN LoaderError("InvalidTableName", 0,
                       "Table name must start with letter or underscore")
    ELSE IF ~(\A i \in 1..Len(name) : IsAlphanumeric(name[i]) \/ name[i] = "_")
      THEN LoaderError("InvalidTableName", 0,
                       "Table name contains invalid characters")
    ELSE IF name \in Keywords
      THEN LoaderError("InvalidTableName", 0, "Table name cannot be SQL keyword")
    ELSE NoError

\* TableSchema::validate_table_name: Ok(()) stands as NoError. The messages
\* are the source's without the name they end with.
ValidateTableName(name) ==
    IF name = <<>>
      THEN LoaderError("InvalidTableName", 0, "Table name cannot be empty")
    ELSE IF ~IsAlphabetic(name[1]) /\ name[1] # "_"
      THEN LoaderError("InvalidTableName", 0,
                       "Table name must start with letter or underscore")
    ELSE IF ~(\A i \in 1..Len(name) : IsAlphanumeric(name[i]) \/ name[i] = "_")
      THEN LoaderError("InvalidTableName", 0,
                       "Table name contains invalid characters")
    ELSE IF \E k \in Keywords : EqIgnoreAsciiCase(name, k)
      THEN LoaderError("InvalidTableName", 0, "Table name cannot be SQL keyword")
    ELSE NoError

\* ------------------------------------------------------------ the row source

\* A record of the file that parses: a row of NumColumns fields, here all
\* holding the record's number, so that every row of a file is distinct.
GoodRecord(i) == [ok |-> TRUE, row |-> [j \in 1..NumColumns |-> i], message |-> ""]

\* A record the csv reader rejects (wrong field count, invalid UTF-8).
BadRecord(i) == [ok |-> FALSE, row |-> <<>>, message |-> "record " \o ToString(i)]

\* Every file of n records.
FilesOfLen(n) ==
    {[i \in 1..n |-> IF i \in bad THEN BadRecord(i) ELSE GoodRecord(i)] :
        bad \in SUBSET (1..n)}

Files == UNION {FilesOfLen(n) : n \in 0..MaxRows}

\* ------------------------------------------------------------ db/batch.rs

\* The for loop of BatchIterator::next from source position p with n
\* iterations left and acc collected: a row is pushed, a failure returns at
\* once, the end of the source breaks.
RECURSIVE Fill(_, _, _, _)
Fill(src, p, n, acc) ==
    IF n = 0 THEN [failed |-> FALSE, rows |-> acc, pos |-> p, err |-> NoError]
    ELSE IF p > Len(src)
        THEN [failed |-> FALSE, rows |-> acc, pos |-> p, err |-> NoError]
    ELSE IF src[p].ok THEN Fill(src, p + 1, n - 1, Append(acc, src[p].row))
    ELSE [failed |-> TRUE, rows |-> <<>>, pos |-> p + 1,
          err |-> LoaderError("CsvError", 0, src[p].message)]

\* A BatchIterator that fills one row too few.
BatchIteratorNextShort(src, p, n) ==
    LET f == Fill(src, p, IF n > 1 THEN n - 1 ELSE n, <<>>)
    IN  IF f.failed
            THEN [tag |-> "Err", rows |-> <<>>, pos |-> f.pos, err |-> f.err]
        ELSE IF f.rows = <<>>
            THEN [tag |-> "None", rows |-> <<>>, pos |-> f.pos, err |-> NoError]
        ELSE [tag |-> "Some", rows |-> f.rows, pos |-> f.pos, err |-> NoError]

\* BatchIterator::next: Some(Ok(batch)), Some(Err(e)) or None, and the source
\* position it leaves.
BatchIteratorNext(src, p, n) ==
    LET f == Fill(src, p, n, <<>>)
    IN  IF f.failed
            THEN [tag |-> "Err", rows |-> <<>>, pos |-> f.pos, err |-> f.err]
        ELSE IF f.rows = <<>>
            THEN [tag |-> "None", rows |-> <<>>, pos |-> f.pos, err |-> NoError]
        ELSE [tag |-> "Some", rows |-> f.rows, pos |-> f.pos, err |-> NoError]

\* process_batch gives up one failure late.
ExhaustedLate(r, maxr) == r > maxr

\* process_batch: `if retries >= self.config.max_retries`.
Exhausted(r, maxr) == r >= maxr

\* A backoff that doubles without the cap.
NextBackoffUncapped(b, maxb) == b * 2

\* process_batch: `backoff = min(backoff * 2, max_backoff)`.
NextBackoff(b, maxb) == Min(b * 2, maxb)

\* ------------------------------------------------------------- db/copy.rs

\* What the sink may answer to one COPY: success, or one of its errors.
SinkErrors == {"connection reset", "deadlock detected"}
SinkOutcomes == {"ok"} \cup SinkErrors

\* rows_to_csv's check: the first row whose length is not the column count.
BadRows(rows, ncols) == {i \in 1..Len(rows) : Len(rows[i]) # ncols}

FirstBadRow(rows, ncols) ==
    CHOOSE i \in BadRows(rows, ncols) : \A j \in BadRows(rows, ncols) : i <= j

\* rows_to_csv's closure on one field: the empty string for an empty field;
\* quotes around a field with a comma, a quote or a newline, its quotes
\* doubled; any other field as it is.
RECURSIVE DoubleQuotes(_)
DoubleQuotes(f) ==
    IF f = <<>> THEN <<>>
    ELSE (IF f[1] = "\"" THEN <<"\"", "\"">> ELSE <<f[1]>>) \o DoubleQuotes(Tail(f))

EscapeField(f) ==
    IF f = <<>> THEN <<>>
    ELSE IF \E i \in 1..Len(f) : f[i] \in {",", "\"", "\n"}
      THEN <<"\"">> \o DoubleQuotes(f) \o <<"\"">>
    ELSE f

\* escaped.join(",")
RECURSIVE Join(_)
Join(fields) ==
    IF fields = <<>> THEN <<>>
    ELSE IF Len(fields) = 1 THEN fields[1]
    ELSE fields[1] \o <<",">> \o Join(Tail(fields))

RECURSIVE CsvLines(_)
CsvLines(rows) ==
    IF rows = <<>> THEN <<>>
    ELSE Join([i \in 1..Len(rows[1]) |-> EscapeField(rows[1][i])])
            \o <<"\n">> \o CsvLines(Tail(rows))

NoPayload == [ok |-> FALSE, data |-> <<>>, err |-> NoError]

\* CopyLoader::rows_to_csv: the payload, or the error of the first row whose
\* length is not the column count.
RowsToCsv(rows, ncols) ==
    IF BadRows(rows, ncols) # {}
      THEN [ok |-> FALSE, data |-> <<>>,
            err |-> LoaderError("TypeConversionError", 0,
                        "Row has "
                            \o ToString(Len(rows[FirstBadRow(rows, ncols)]))
                            \o " columns but expected " \o ToString(ncols))]
    ELSE [ok |-> TRUE, data |-> CsvLines(rows), err |-> NoError]

\* CopyLoader::load_batch with the sink answering `sink`: the Result, and
\* whether a transfer was started (copy_in was called).
LoadBatch(rows, ncols, sink) ==
    IF rows = <<>>
        THEN [ok |-> TRUE, count |-> 0, err |-> NoError, transfer |-> FALSE]
    ELSE IF BadRows(rows, ncols) # {}
        THEN [ok |-> FALSE, count |-> 0, transfer |-> FALSE,
              err |-> LoaderError("TypeConversionError", 0,
                        "Row has "
                            \o ToString(Len(rows[FirstBadRow(rows, ncols)]))
                            \o " columns but expected " \o ToString(ncols))]
    ELSE IF sink = "ok"
        THEN [ok |-> TRUE, count |-> Len(rows), err |-> NoError, transfer |-> TRUE]
    ELSE [ok |-> FALSE, count |-> 0, transfer |-> TRUE,
          err |-> LoaderError("DatabaseError", 0, sink)]

\* ------------------------------------------------------------------ state

VARIABLES
    pc,               \* where the modelled code stands
    file,             \* the row source: the file's records, or any source
    pos,              \* the reader's next record (1-based)
    has_headers,      \* !args.no_header
    sample_size,      \* args.sample_size
    quiet,            \* args.quiet
    batch_size,       \* BatchConfig.batch_size / BatchIterator.batch_size
    max_retries,      \* BatchConfig.max_retries
    initial_backoff,  \* BatchConfig.initial_backoff
    max_backoff,      \* BatchConfig.max_backoff
    columns,          \* CopyLoader.columns.len()
    count,            \* infer_schema's count
    pulled,           \* records infer_schema took from the reader
    sampled,          \* rows infer_schema passed to update_row
    batch,            \* the batch process_batch is loading
    batch_no,         \* its number in the run (1-based)
    retries,          \* process_batch's retries
    backoff,          \* process_batch's backoff
    pb_result,        \* what process_batch returned
    total_rows,       \* run's total_rows
    bar_pos,          \* ProgressTracker.bar.position()
    bar_state,        \* the progress bar: none, active, finished, cleared
    stdout_rows,      \* the row count of the success line, or NoRows
    outcome,          \* what run returned: the error main prints, or NoError
    yielded,          \* what each BatchIterator::next call returned
    log,              \* the load_batch calls and backoff sleeps, in order
    ta, tb, tc,       \* three type tags
    merged,           \* the merges of them
    value,            \* a field value, as its characters
    inferred,         \* SqlType::infer_from_str(value)
    token,            \* what rows_to_csv writes for value
    column,           \* a ColumnSchema
    observed,         \* the values column.update was called with, in order
    name_result,      \* what validate_table_name returned
    payload,          \* what rows_to_csv returned
    table_name,       \* args.table, or the file stem
    csv_exists,       \* whether args.csv_file exists
    io                \* the kinds of I/O run has performed so far

loaderVars == <<batch, batch_no, retries, backoff, pb_result, log>>
configVars ==
    <<has_headers, sample_size, quiet, batch_size, max_retries,
      initial_backoff, max_backoff, columns>>
readerVars == <<file, pos>>
inferVars == <<count, pulled, sampled>>
reportVars == <<total_rows, bar_pos, bar_state, stdout_rows, outcome>>
mergeVars == <<ta, tb, tc, merged>>
pureVars == <<value, inferred, token, column, observed, name_result, payload>>
argVars == <<table_name, csv_exists>>

vars ==
    <<pc, readerVars, configVars, inferVars, loaderVars, reportVars, yielded,
      mergeVars, pureVars, argVars, io>>

NoResult == [ok |-> FALSE, count |-> 0, err |-> NoError]
NoMerge == [ab |-> "", ba |-> "", ab_c |-> "", a_bc |-> ""]

\* The parts of the state a specification does not use.
IdleReader == file = <<>> /\ pos = 1
IdleInfer == count = 0 /\ pulled = 0 /\ sampled = <<>>
IdleReport ==
    /\ total_rows = 0
    /\ bar_pos = 0
    /\ bar_state = "none"
    /\ stdout_rows = NoRows
    /\ outcome = NoError
IdleLoader ==
    /\ batch = <<>>
    /\ batch_no = 0
    /\ retries = 0
    /\ backoff = 0
    /\ pb_result = NoResult
    /\ log = <<>>
IdleMerge == ta = "" /\ tb = "" /\ tc = "" /\ merged = NoMerge
IdlePure ==
    /\ value = <<>>
    /\ inferred = ""
    /\ token = <<>>
    /\ column = ColumnSchemaNew
    /\ observed = <<>>
    /\ name_result = NoError
    /\ payload = NoPayload
IdleArgs == table_name = <<>> /\ csv_exists = FALSE /\ io = {}
IdleConfig ==
    /\ has_headers = FALSE /\ sample_size = 1 /\ quiet = FALSE /\ batch_size = 1
    /\ max_retries = 0 /\ initial_backoff = 0 /\ max_backoff = 0
    /\ columns = NumColumns
\* Everything but pc and the values, tags, names and payloads.
IdleRun ==
    /\ IdleReader /\ IdleInfer /\ IdleLoader /\ IdleReport /\ IdleConfig
    /\ IdleArgs
    /\ yielded = <<>>

\* ------------------------------------------- BatchProcessor::process_batch

\* One entry of log: a load_batch call with its batch and its result, or a
\* sleep with its duration.
AttemptEvent(r) ==
    [kind |-> "attempt", batch_no |-> batch_no, rows |-> batch,
     transfer |-> r.transfer, ok |-> r.ok, err |-> r.err, dur |-> 0]

SleepEvent ==
    [kind |-> "sleep", batch_no |-> batch_no, rows |-> batch,
     transfer |-> FALSE, ok |-> FALSE, err |-> NoError, dur |-> backoff]

\* process_batch's entry: `let mut retries = 0; let mut backoff = initial`.
EnterProcessBatch(b, n) ==
    /\ batch' = b
    /\ batch_no' = n
    /\ retries' = 0
    /\ backoff' = initial_backoff
    /\ pb_result' = NoResult

\* One turn of process_batch's loop up to its await or its return:
\* load_batch, then Ok(count), or BatchError once retries are used up, or the
\* sleep.
Attempt ==
    /\ pc = "attempt"
    /\ \E sink \in SinkOutcomes :
        LET r == LoadBatch(batch, columns, sink)
        IN  /\ log' = Append(log, AttemptEvent(r))
            /\ io' = IF r.transfer THEN io \cup {"db"} ELSE io
            /\ IF r.ok
                 THEN /\ pb_result' = [ok |-> TRUE, count |-> r.count, err |-> NoError]
                      /\ pc' = "returned"
               ELSE IF Exhausted(retries, max_retries)
                 THEN /\ pb_result' =
                            [ok |-> FALSE, count |-> 0,
                             err |-> LoaderError("BatchError", retries, Display(r.err))]
                      /\ pc' = "returned"
               ELSE /\ pb_result' = pb_result
                    /\ pc' = "sleeping"
    /\ UNCHANGED <<batch, batch_no, retries, backoff>>
    /\ UNCHANGED <<readerVars, configVars, inferVars, reportVars, yielded, mergeVars, pureVars, argVars>>

\* sleep(backoff) ends: `retries += 1; backoff = min(backoff * 2, max)`.
Sleep ==
    /\ pc = "sleeping"
    /\ log' = Append(log, SleepEvent)
    /\ retries' = retries + 1
    /\ backoff' = NextBackoff(backoff, max_backoff)
    /\ pc' = "attempt"
    /\ UNCHANGED <<batch, batch_no, pb_result, io>>
    /\ UNCHANGED <<readerVars, configVars, inferVars, reportVars, yielded, mergeVars, pureVars, argVars>>

\* Any batch of up to MaxBatchRows rows of 1..NumColumns fields.
AnyRows == UNION {[1..n -> {0}] : n \in 1..NumColumns}
AnyBatches == UNION {[1..n -> AnyRows] : n \in 0..MaxBatchRows}

\* process_batch called with any configuration on any batch.
InitLoader ==
    /\ pc = "attempt"
    /\ IdleReader /\ IdleInfer /\ IdleReport /\ IdleMerge
    /\ IdlePure /\ IdleArgs
    /\ has_headers = TRUE /\ sample_size = 1 /\ quiet = FALSE /\ batch_size = 1
    /\ max_retries \in 0..MaxRetries
    /\ initial_backoff \in 1..MaxInitialBackoff
    /\ max_backoff \in 1..MaxMaxBackoff
    /\ columns = NumColumns
    /\ batch \in AnyBatches
    /\ batch_no = 1
    /\ retries = 0
    /\ backoff = initial_backoff
    /\ pb_result = NoResult
    /\ log = <<>>
    /\ yielded = <<>>

NextLoader == Attempt \/ Sleep

SpecLoader == InitLoader /\ [][NextLoader]_vars

\* ------------------------------------------------- BatchIterator on its own

\* A consumer calls next(); nothing stops it from calling again after an
\* Err or a None.
BatcherCall ==
    /\ pc = "iterating"
    /\ Len(yielded) < MaxCalls
    /\ LET r == BatchIteratorNext(file, pos, batch_size)
       IN  /\ yielded' = Append(yielded, r)
           /\ pos' = r.pos
    /\ UNCHANGED <<pc, file, configVars, inferVars, loaderVars, reportVars>>
    /\ UNCHANGED <<mergeVars, pureVars, argVars, io>>

\* A BatchIterator of any batch size over any source of rows and failures.
InitBatcher ==
    /\ pc = "iterating"
    /\ file \in Files
    /\ pos = 1
    /\ batch_size \in 0..MaxBatch
    /\ has_headers = FALSE /\ sample_size = 1 /\ quiet = FALSE
    /\ max_retries = 0 /\ initial_backoff = 0 /\ max_backoff = 0
    /\ columns = NumColumns
    /\ IdleInfer /\ IdleLoader /\ IdleReport /\ IdleMerge
    /\ IdlePure /\ IdleArgs
    /\ yielded = <<>>

NextBatcher == BatcherCall

SpecBatcher == InitBatcher /\ [][NextBatcher]_vars

\* ------------------------------------------------------ merge on its own

ApplyMerge ==
    /\ pc = "merge"
    /\ merged' =
          [ab |-> Merge(ta, tb), ba |-> Merge(tb, ta),
           ab_c |-> Merge(Merge(ta, tb), tc), a_bc |-> Merge(ta, Merge(tb, tc))]
    /\ pc' = "merged"
    /\ UNCHANGED <<ta, tb, tc>>
    /\ UNCHANGED <<readerVars, configVars, inferVars, loaderVars, reportVars, yielded>>
    /\ UNCHANGED <<pureVars, argVars, io>>

InitMerge ==
    /\ pc = "merge"
    /\ ta \in Tags /\ tb \in Tags /\ tc \in Tags
    /\ merged = NoMerge
    /\ IdleReader /\ IdleInfer /\ IdleLoader /\ IdleReport
    /\ IdlePure /\ IdleArgs
    /\ has_headers = FALSE /\ sample_size = 1 /\ quiet = FALSE /\ batch_size = 1
    /\ max_retries = 0 /\ initial_backoff = 0 /\ max_backoff = 0
    /\ columns = NumColumns
    /\ yielded = <<>>

NextMerge == ApplyMerge

SpecMerge == InitMerge /\ [][NextMerge]_vars

\* ------------------------------------------------- one column of a schema

\* Values a column may meet: of every tag, with the rows of the schema tests.
SampleValues ==
    {<<"1">>,
     <<"2">>,
     <<"3", "2", "7", "6", "8">>,
     <<"2", "1", "4", "7", "4", "8", "3", "6", "4", "8">>,
     <<"3", ".", "1", "4">>,
     <<"1", "e", "3", "9">>,
     <<"t", "r", "u", "e">>,
     <<>>,
     <<"n", "u", "l", "l">>,
     <<"2", "0", "2", "4", "-", "0", "1", "-", "1", "5">>,
     <<"2", "0", "2", "4", "-", "0", "1", "-", "1", "5", " ",
       "1", "0", ":", "3", "0", ":", "0", "0">>,
     <<"A", "l", "i", "c", "e">>,
     <<"B", "o", "b">>,
     <<"C", "a", "r", "o", "l">>}

\* update_row's call of column.update, on any value.
ColumnObserve ==
    /\ pc = "observing"
    /\ Len(observed) < MaxObserved
    /\ \E v \in SampleValues :
        /\ column' = ColumnSchemaUpdate(column, v)
        /\ observed' = Append(observed, v)
    /\ UNCHANGED <<pc, value, inferred, token, name_result, payload>>
    /\ UNCHANGED <<readerVars, configVars, inferVars, loaderVars, reportVars, yielded>>
    /\ UNCHANGED <<mergeVars, argVars, io>>

\* infer_schema's end: at least one row was sampled, and the column is
\* finalized.
ColumnFinalize ==
    /\ pc = "observing"
    /\ column.sample_count >= 1
    /\ column' = ColumnSchemaFinalize(column)
    /\ pc' = "finalized"
    /\ UNCHANGED <<value, inferred, token, observed, name_result, payload>>
    /\ UNCHANGED <<readerVars, configVars, inferVars, loaderVars, reportVars, yielded>>
    /\ UNCHANGED <<mergeVars, argVars, io>>

\* A fresh column.
InitColumn ==
    /\ pc = "observing"
    /\ IdleRun /\ IdleMerge /\ IdlePure

NextColumn == ColumnObserve \/ ColumnFinalize

SpecColumn == InitColumn /\ [][NextColumn]_vars

\* ------------------------------------------- one field value, both passes

\* The characters of the null spellings in both cases, and a digit.
InferAlphabet == {"\\", "n", "N", "u", "U", "l", "L", "1"}

\* The inference pass meets the value: column.update calls infer_from_str.
InferValue ==
    /\ pc = "value"
    /\ inferred' = InferFromStr(value)
    /\ pc' = "inferred"
    /\ UNCHANGED <<value, token, column, observed, name_result, payload>>
    /\ UNCHANGED <<readerVars, configVars, inferVars, loaderVars, reportVars, yielded>>
    /\ UNCHANGED <<mergeVars, argVars, io>>

\* The load pass meets the same value: rows_to_csv writes its token.
EmitValue ==
    /\ pc = "inferred"
    /\ token' = EscapeField(value)
    /\ pc' = "emitted"
    /\ UNCHANGED <<value, inferred, column, observed, name_result, payload>>
    /\ UNCHANGED <<readerVars, configVars, inferVars, loaderVars, reportVars, yielded>>
    /\ UNCHANGED <<mergeVars, argVars, io>>

\* Any field value of up to MaxValueLen characters.
InitInfer ==
    /\ pc = "value"
    /\ value \in StringsUpTo(InferAlphabet, MaxValueLen)
    /\ inferred = ""
    /\ token = <<>>
    /\ column = ColumnSchemaNew
    /\ observed = <<>>
    /\ name_result = NoError
    /\ payload = NoPayload
    /\ IdleRun /\ IdleMerge

NextInfer == InferValue \/ EmitValue

SpecInfer == InitInfer /\ [][NextInfer]_vars

\* ------------------------------------------------- validate_table_name

\* Letters that spell a keyword in either case, an underscore, a digit and a
\* character that is neither.
NameAlphabet == {"d", "D", "r", "o", "O", "p", "_", "1", "-"}

\* The names of the validation test, and the keywords in several cases.
ExampleNames ==
    {<<"u", "s", "e", "r", "s">>,
     <<"u", "s", "e", "r", "_", "d", "a", "t", "a">>,
     <<"_", "t", "e", "m", "p">>,
     <<"1", "2", "3", "u", "s", "e", "r", "s">>,
     <<"u", "s", "e", "r", "-", "d", "a", "t", "a">>,
     <<"s", "e", "l", "e", "c", "t">>,
     <<"S", "E", "L", "E", "C", "T">>,
     <<"I", "n", "s", "e", "r", "t">>,
     <<"u", "p", "d", "a", "t", "e">>,
     <<"D", "E", "L", "E", "T", "E">>,
     <<"c", "r", "e", "a", "t", "e">>,
     <<"A", "l", "t", "e", "r">>,
     <<"e", "x", "e", "c">>}

ValidateName ==
    /\ pc = "name"
    /\ name_result' = ValidateTableName(table_name)
    /\ pc' = "validated"
    /\ UNCHANGED <<value, inferred, token, column, observed, payload>>
    /\ UNCHANGED <<readerVars, configVars, inferVars, loaderVars, reportVars, yielded>>
    /\ UNCHANGED <<mergeVars, argVars, io>>

\* Any name of up to MaxNameLen characters, or one of the examples.
InitName ==
    /\ pc = "name"
    /\ table_name \in StringsUpTo(NameAlphabet, MaxNameLen) \cup ExampleNames
    /\ csv_exists = FALSE
    /\ io = {}
    /\ IdleReader /\ IdleInfer /\ IdleLoader /\ IdleReport /\ IdleConfig
    /\ IdleMerge /\ IdlePure
    /\ yielded = <<>>

NextName == ValidateName

SpecName == InitName /\ [][NextName]_vars

\* ------------------------------------------------------- rows_to_csv

\* The four characters CSV gives a meaning to, and a plain one.
EncodeAlphabet == {",", "\"", "\n", "\r", "a"}

\* Any field of up to MaxFieldLen characters, and the field a,b"c.
EncodeFields ==
    StringsUpTo(EncodeAlphabet, MaxFieldLen) \cup {<<"a", ",", "b", "\"", "c">>}

\* Batches of rows of NumColumns fields.
EncodeBatches ==
    UNION {[1..n -> [1..NumColumns -> EncodeFields]] : n \in 0..MaxEncodedRows}

\* load_batch's call of rows_to_csv.
EncodeBatch ==
    /\ pc = "encode"
    /\ payload' = RowsToCsv(batch, columns)
    /\ pc' = "encoded"
    /\ UNCHANGED <<value, inferred, token, column, observed, name_result>>
    /\ UNCHANGED <<readerVars, configVars, inferVars, loaderVars, reportVars, yielded>>
    /\ UNCHANGED <<mergeVars, argVars, io>>

InitEncode ==
    /\ pc = "encode"
    /\ batch \in EncodeBatches
    /\ batch_no = 0 /\ retries = 0 /\ backoff = 0
    /\ pb_result = NoResult
    /\ log = <<>>
    /\ IdleReader /\ IdleInfer /\ IdleReport /\ IdleConfig /\ IdleArgs
    /\ IdleMerge /\ IdlePure
    /\ yielded = <<>>

NextEncode == EncodeBatch

SpecEncode == InitEncode /\ [][NextEncode]_vars

\* ---------------------------------------------------------- run (main.rs)

\* run returns Err(e) before the load pass has begun.
FailEarly(e) ==
    /\ pc' = "failed_early"
    /\ outcome' = e
    /\ UNCHANGED <<total_rows, bar_pos, bar_state, stdout_rows>>

\* The table names run is given: one that passes validation and a keyword.
RunNames == {<<"u", "s", "e", "r", "s">>, <<"d", "r", "o", "p">>}

\* run's first check: `args.csv_file.exists()`, a look at the file system.
CheckCsvFile ==
    /\ pc = "args"
    /\ io' = io \cup {"stat"}
    /\ IF ~csv_exists
         THEN FailEarly(LoaderError("FileNotFound", 0, "csv_file"))
       ELSE pc' = "validate" /\ UNCHANGED reportVars
    /\ UNCHANGED <<readerVars, configVars, inferVars, loaderVars, yielded>>
    /\ UNCHANGED <<mergeVars, pureVars, argVars>>

\* The table name is validated, then the delimiter is parsed (it is one
\* character, or it is not).
ValidateAndParseDelimiter ==
    /\ pc = "validate"
    /\ IF ValidateTableName(table_name) # NoError
         THEN FailEarly(ValidateTableName(table_name))
       ELSE \E one_char \in BOOLEAN :
              IF one_char
                THEN pc' = "start" /\ UNCHANGED reportVars
              ELSE FailEarly(LoaderError("ConfigError", 0,
                        "Delimiter must be a single character"))
    /\ UNCHANGED <<readerVars, configVars, inferVars, loaderVars, yielded>>
    /\ UNCHANGED <<mergeVars, pureVars, argVars, io>>

\* CsvParser::from_path: with a header row the reader takes the first record
\* as the headers; without one it reads the first record through
\* reader.records() to count the columns.
FromPath ==
    /\ pc = "start"
    /\ io' = io \cup {"open", "read"}
    /\ IF has_headers
         THEN IF Len(file) = 0
                THEN /\ columns' = 0
                     /\ pos' = 1
                     /\ pc' = "infer"
                     /\ UNCHANGED reportVars
              ELSE IF ~file[1].ok
                THEN /\ FailEarly(LoaderError("CsvError", 0, file[1].message))
                     /\ pos' = 2
                     /\ UNCHANGED columns
              ELSE /\ columns' = Len(file[1].row)
                   /\ pos' = 2
                   /\ pc' = "infer"
                   /\ UNCHANGED reportVars
       ELSE IF Len(file) = 0
         THEN /\ FailEarly(LoaderError("EmptyFile", 0, ""))
              /\ UNCHANGED <<columns, pos>>
       ELSE IF ~file[1].ok
         THEN /\ FailEarly(LoaderError("CsvError", 0, file[1].message))
              /\ pos' = 2
              /\ UNCHANGED columns
       ELSE /\ columns' = Len(file[1].row)
            /\ pos' = 2
            /\ pc' = "infer"
            /\ UNCHANGED reportVars
    /\ UNCHANGED <<file, has_headers, sample_size, quiet, batch_size, max_retries,
                   initial_backoff, max_backoff>>
    /\ UNCHANGED <<inferVars, loaderVars, yielded, mergeVars, pureVars, argVars>>

\* infer_schema after its loop: EmptyFile when nothing was sampled, else
\* finalize.
EndInference ==
    IF count = 0
      THEN FailEarly(LoaderError("EmptyFile", 0, ""))
    ELSE /\ pc' = "prepare"
         /\ UNCHANGED reportVars

\* One turn of infer_schema's loop: the reader yields its next record, and
\* only then is count compared with sample_size.
InferPull ==
    /\ pc = "infer"
    /\ io' = io \cup {"read"}
    /\ IF pos > Len(file)
         THEN /\ EndInference
              /\ UNCHANGED <<pos, inferVars>>
       ELSE /\ pos' = pos + 1
            /\ pulled' = pulled + 1
            /\ IF count >= sample_size
                 THEN /\ EndInference
                      /\ UNCHANGED <<count, sampled>>
               ELSE IF ~file[pos].ok
                 THEN /\ FailEarly(LoaderError("CsvError", 0, file[pos].message))
                      /\ UNCHANGED <<count, sampled>>
               ELSE IF Len(file[pos].row) # columns
                 THEN /\ FailEarly(LoaderError("SchemaInferenceError", 0,
                            "Row has " \o ToString(Len(file[pos].row))
                                \o " columns but schema expects "
                                \o ToString(columns)))
                      /\ UNCHANGED <<count, sampled>>
               ELSE /\ sampled' = Append(sampled, file[pos].row)
                    /\ count' = count + 1
                    /\ pc' = "infer"
                    /\ UNCHANGED reportVars
    /\ UNCHANGED <<file, configVars, loaderVars, yielded, mergeVars, pureVars, argVars>>

\* What lies between the passes: the dry run's exit, the connection, the
\* table's drop, lookup and creation, each of which may fail.
PrepareOutcomes == {"dry_run", "ConnectionError", "DatabaseError", "ConfigError", "ok"}

PrepareDb ==
    /\ pc = "prepare"
    /\ \E o \in PrepareOutcomes :
        CASE o = "dry_run" -> pc' = "done_dry" /\ UNCHANGED <<reportVars, io>>
          [] o = "ok" ->
                pc' = "reset" /\ io' = io \cup {"db"} /\ UNCHANGED reportVars
          [] OTHER ->
                FailEarly(LoaderError(o, 0, "prepare")) /\ io' = io \cup {"db"}
    /\ UNCHANGED <<readerVars, configVars, inferVars, loaderVars, yielded, mergeVars, pureVars, argVars>>

\* A reset that skips the first record whether or not it is a header.
ResetPosSkipsFirst(f, hh) == IF Len(f) >= 1 THEN 2 ELSE 1

\* CsvParser::reset: a new reader on the reopened file; with a header row
\* the headers are read, which takes the first record.
ResetPos(f, hh) == IF hh /\ Len(f) >= 1 THEN 2 ELSE 1

\* parser.reset, then the batch processor, the progress tracker, the loader
\* and the iterators are set up.
ResetAndSetUp ==
    /\ pc = "reset"
    /\ io' = io \cup {"open"} \cup (IF has_headers THEN {"read"} ELSE {})
    /\ pos' = ResetPos(file, has_headers)
    /\ total_rows' = 0
    /\ bar_pos' = 0
    /\ bar_state' = "active"
    /\ pc' = "load"
    /\ UNCHANGED <<file, stdout_rows, outcome>>
    /\ UNCHANGED <<configVars, inferVars, loaderVars, yielded, mergeVars, pureVars, argVars>>

\* The for loop's next turn: batches.next(), then the end of the loop
\* (progress.finish and the success line), or `batch_result?` returning the
\* row's error (the tracker is dropped unfinished, which clears the bar), or
\* the call of process_batch.
NextBatch ==
    /\ pc = "load"
    /\ io' = io \cup {"read"}
    /\ LET r == BatchIteratorNext(file, pos, batch_size)
       IN  /\ yielded' = Append(yielded, r)
           /\ pos' = r.pos
           /\ CASE r.tag = "None" ->
                    /\ pc' = "done"
                    /\ bar_state' = "finished"
                    /\ stdout_rows' = total_rows
                    /\ UNCHANGED <<total_rows, bar_pos, outcome>>
                    /\ UNCHANGED loaderVars
                [] r.tag = "Err" ->
                    /\ pc' = "failed_load"
                    /\ bar_state' = "cleared"
                    /\ outcome' = r.err
                    /\ UNCHANGED <<total_rows, bar_pos, stdout_rows>>
                    /\ UNCHANGED loaderVars
                [] OTHER ->
                    /\ pc' = "attempt"
                    /\ EnterProcessBatch(r.rows, batch_no + 1)
                    /\ UNCHANGED log
                    /\ UNCHANGED reportVars
    /\ UNCHANGED <<file, configVars, inferVars, mergeVars, pureVars, argVars>>

\* A loop that goes on to the next batch whatever process_batch returned.
PcAfterBatchContinues(r) == "load"

\* The match on process_batch's result: Ok goes round the loop, Err returns.
PcAfterBatch(r) == IF r.ok THEN "load" ELSE "failed_load"

\* process_batch has returned to run.
AfterBatch ==
    /\ pc = "returned"
    /\ pc' = PcAfterBatch(pb_result)
    /\ io' = io
    /\ IF pb_result.ok
         THEN /\ total_rows' = total_rows + pb_result.count
              /\ bar_pos' = bar_pos + Len(batch)
              /\ UNCHANGED <<bar_state, stdout_rows, outcome>>
       ELSE /\ bar_state' = "finished"
            /\ outcome' = pb_result.err
            /\ UNCHANGED <<total_rows, bar_pos, stdout_rows>>
    /\ UNCHANGED <<readerVars, configVars, inferVars, loaderVars, yielded, mergeVars, pureVars, argVars>>

\* run on any file and any arguments; BatchConfig takes its two backoffs from
\* Default.
Init ==
    /\ pc = "args"
    /\ table_name \in RunNames
    /\ csv_exists \in BOOLEAN
    /\ io = {}
    /\ file \in (IF csv_exists THEN Files ELSE {<<>>})
    /\ pos = 1
    /\ has_headers \in BOOLEAN
    /\ sample_size \in 0..MaxSample
    /\ quiet \in BOOLEAN
    /\ batch_size \in 0..MaxBatch
    /\ max_retries \in 0..MaxRunRetries
    /\ initial_backoff = DefaultInitialBackoff
    /\ max_backoff = DefaultMaxBackoff
    /\ columns = 0
    /\ IdleInfer /\ IdleLoader /\ IdleReport /\ IdleMerge
    /\ IdlePure
    /\ yielded = <<>>

Next ==
    \/ CheckCsvFile
    \/ ValidateAndParseDelimiter
    \/ FromPath
    \/ InferPull
    \/ PrepareDb
    \/ ResetAndSetUp
    \/ NextBatch
    \/ Attempt
    \/ Sleep
    \/ AfterBatch

Spec == Init /\ [][Next]_vars

\* ------------------------------------------------------------ properties

Attempts == SelectSeq(log, LAMBDA e : e.kind = "attempt")
Sleeps == SelectSeq(log, LAMBDA e : e.kind = "sleep")

RECURSIVE SumDur(_)
SumDur(evs) == IF evs = <<>> THEN 0 ELSE evs[1].dur + SumDur(Tail(evs))

RECURSIVE ConcatRows(_)
ConcatRows(evs) == IF evs = <<>> THEN <<>> ELSE evs[1].rows \o ConcatRows(Tail(evs))

CeilDiv(m, n) == (m + n - 1) \div n

AllGood(f) == \A i \in 1..Len(f) : f[i].ok

RowsOf(f, from) == [i \in 1..(Len(f) - from + 1) |-> f[from + i - 1].row]

\* C1: one process_batch call makes at most max_retries + 1 load_batch calls
\* and at most max_retries sleeps, and always returns: until it has returned a
\* step is enabled, and once it has returned none is. When it returns an
\* error, every one of exactly max_retries + 1 calls has failed, exactly
\* max_retries sleeps were made, and the error is BatchError with retries =
\* max_retries and the message of the last failure.
C1_BoundedRetries ==
    /\ Len(Attempts) <= max_retries + 1
    /\ Len(Sleeps) <= max_retries
    /\ pc # "returned" => ENABLED NextLoader
    /\ pc = "returned" => ~ENABLED NextLoader
    /\ (pc = "returned" /\ ~pb_result.ok) =>
          /\ Len(Attempts) = max_retries + 1
          /\ Len(Sleeps) = max_retries
          /\ \A i \in 1..Len(Attempts) : ~Attempts[i].ok
          /\ pb_result.err.kind = "BatchError"
          /\ pb_result.err.retries = max_retries
          /\ pb_result.err.message = Display(Attempts[Len(Attempts)].err)

\* C1's case: two retries were allowed, all three calls failed, the first and
\* the last with different sink errors.
C1_Witness ==
    /\ pc = "returned"
    /\ ~pb_result.ok
    /\ max_retries = 2
    /\ Len(Attempts) = 3
    /\ Attempts[1].err.kind = "DatabaseError"
    /\ Attempts[3].err.kind = "DatabaseError"
    /\ Attempts[1].err # Attempts[3].err

\* C2: the first sleep of a call lasts initial_backoff and every later one
\* min(2 x the one before, max_backoff); with max_retries = 2, after two
\* failed calls the loader is still going, and when the third call succeeds
\* the call has returned Ok after exactly 3 calls having slept
\* initial_backoff + min(2 x initial_backoff, max_backoff) in all.
C2_BackoffDoubling ==
    /\ Len(Sleeps) >= 1 => Sleeps[1].dur = initial_backoff
    /\ \A i \in 2..Len(Sleeps) :
          Sleeps[i].dur = Min(2 * Sleeps[i - 1].dur, max_backoff)
    /\ (max_retries = 2 /\ Len(Attempts) = 2
            /\ ~Attempts[1].ok /\ ~Attempts[2].ok) =>
          pc \in {"sleeping", "attempt"}
    /\ (max_retries = 2 /\ Len(Attempts) = 3
            /\ ~Attempts[1].ok /\ ~Attempts[2].ok /\ Attempts[3].ok) =>
          /\ pc = "returned"
          /\ pb_result.ok
          /\ ~ENABLED NextLoader
          /\ SumDur(Sleeps) = initial_backoff + Min(2 * initial_backoff, max_backoff)

\* C2's case: the sink failed twice, then accepted the batch, and the second
\* sleep was cut by the cap.
C2_Witness ==
    /\ pc = "returned"
    /\ pb_result.ok
    /\ max_retries = 2
    /\ Len(Attempts) = 3
    /\ Attempts[1].transfer /\ Attempts[2].transfer
    /\ initial_backoff = 3
    /\ max_backoff = 4
    /\ SumDur(Sleeps) = 7

\* C3: a load_batch call that fails on a row's field count is the only call
\* of its process_batch, no sleep follows it, and process_batch returns that
\* very error.
C3_FieldCountNotRetried ==
    \A i \in 1..Len(log) :
        (log[i].kind = "attempt" /\ log[i].err.kind = "TypeConversionError") =>
            /\ Len(log) = 1
            /\ pc = "returned"
            /\ pb_result.err = log[i].err

\* C4: what the user is shown of the row count: the success line's count, or
\* else the position of a progress bar that was finished (not cleared) and is
\* not hidden.
ReportedRows ==
    IF stdout_rows # NoRows THEN stdout_rows
    ELSE IF bar_state = "finished" /\ ~quiet THEN bar_pos
    ELSE NoRows

\* C4: when the load pass has ended with an error, the rows loaded so far
\* are reported.
C4_PartialCountReported == pc = "failed_load" => ReportedRows = total_rows

\* C5: in log the batch numbers start at 1 and never decrease; the entry
\* after a batch's last is the first load_batch call of the next batch and
\* follows a successful call; and once run has failed in the load pass
\* nothing more happens.
C5_BatchesInSequence ==
    /\ Len(log) >= 1 => log[1].batch_no = 1 /\ log[1].kind = "attempt"
    /\ \A i \in 1..(Len(log) - 1) :
          \/ log[i + 1].batch_no = log[i].batch_no
          \/ /\ log[i + 1].batch_no = log[i].batch_no + 1
             /\ log[i + 1].kind = "attempt"
             /\ log[i].kind = "attempt"
             /\ log[i].ok
    /\ \A i \in 1..Len(log) : \A j \in i..Len(log) :
          log[i].batch_no <= log[j].batch_no
    /\ pc = "failed_load" => ~ENABLED Next

\* C5's case: batch 1 was loaded after a retry, batch 2 used up its retries.
C5_Witness ==
    /\ pc = "failed_load"
    /\ outcome.kind = "BatchError"
    /\ Len(log) = 6
    /\ log[2].kind = "sleep" /\ log[2].batch_no = 1
    /\ log[3].ok /\ log[3].batch_no = 1
    /\ log[4].batch_no = 2
    /\ log[5].kind = "sleep"
    /\ pos <= Len(file)

\* C6: with batch_size N >= 1 over a source of M rows and no failure, call i
\* of next() returns a batch for i <= ceil(M/N) and None after; batch i is
\* the N rows from (i-1)N+1 on, the last the M mod N that are left (N when
\* M mod N = 0); and the ceil(M/N) batches together are the source.
C6_BatchesPartitionSource ==
    (batch_size >= 1 /\ AllGood(file)) =>
        LET M == Len(file)
            N == batch_size
            K == CeilDiv(M, N)
            last == IF M % N = 0 THEN N ELSE M % N
        IN  /\ \A i \in 1..Len(yielded) :
                  IF i <= K
                    THEN /\ yielded[i].tag = "Some"
                         /\ Len(yielded[i].rows) = (IF i < K THEN N ELSE last)
                         /\ yielded[i].rows =
                              [j \in 1..Len(yielded[i].rows) |->
                                  file[(i - 1) * N + j].row]
                  ELSE yielded[i].tag = "None"
            /\ Len(yielded) >= K =>
                  ConcatRows(SubSeq(yielded, 1, K)) = RowsOf(file, 1)

\* C6's case: three rows in batches of two, read to the end.
C6_Witness ==
    /\ pc = "iterating"
    /\ batch_size = 2
    /\ Len(file) = 3
    /\ AllGood(file)
    /\ Len(yielded) = 3
    /\ Len(yielded[2].rows) = 1
    /\ yielded[3].tag = "None"

\* The source position at which call i of next() began.
StartOf(i) == IF i = 1 THEN 1 ELSE yielded[i - 1].pos

\* C7: a next() call that meets a failed row returns the failure having
\* pulled nothing past it, the rows it had collected are in no batch, and
\* every later call returns None and leaves the source where it was.
C7_BatcherStopsAfterFailure ==
    \A i \in 1..Len(yielded) :
        yielded[i].tag = "Err" =>
            /\ ~file[yielded[i].pos - 1].ok
            /\ \A k \in StartOf(i)..(yielded[i].pos - 2) :
                  /\ file[k].ok
                  /\ \A j \in 1..Len(yielded) : \A m \in 1..Len(yielded[j].rows) :
                        yielded[j].rows[m] # file[k].row
            /\ \A j \in (i + 1)..Len(yielded) :
                  /\ yielded[j].tag = "None"
                  /\ yielded[j].pos = yielded[i].pos

\* The data rows of the file: every record but the header.
DataRows == RowsOf(file, IF has_headers THEN 2 ELSE 1)

\* The rows handed to the sink, over all transfers, in order.
HandedRows == ConcatRows(SelectSeq(log, LAMBDA e : e.kind = "attempt" /\ e.transfer))

\* C8: when run has finished the load pass of a file (batch_size >= 1) and
\* every load_batch call succeeded, the rows handed to the sink are the
\* file's data rows, each once and in order, and total_rows counts them.
C8_LoadPassSeesEveryRow ==
    (pc = "done" /\ batch_size >= 1 /\ \A i \in 1..Len(Attempts) : Attempts[i].ok) =>
        /\ AllGood(file)
        /\ HandedRows = DataRows
        /\ total_rows = Len(DataRows)

\* C8's case: a file of three rows and no header, one of them sampled,
\* loaded in two batches.
C8_Witness ==
    /\ pc = "done"
    /\ ~has_headers
    /\ Len(file) = 3
    /\ sample_size = 1
    /\ count = 1
    /\ batch_size = 2
    /\ Len(log) = 2
    /\ total_rows = 3

\* C9: merge is commutative and associative.
C9_MergeCommutativeAssociative ==
    pc = "merged" =>
        /\ merged.ab = merged.ba
        /\ merged.ab_c = merged.a_bc

\* C9's case: a float met an integer, then a date.
C9_Witness ==
    /\ pc = "merged"
    /\ ta = "Real" /\ tb = "SmallInt" /\ tc = "Date"
    /\ merged.ba = "DoublePrecision"
    /\ merged.a_bc = "Text"

IntRank(t) == CASE t = "SmallInt" -> 1 [] t = "Integer" -> 2 [] OTHER -> 3

\* The rule table of the type lattice.
RuleTable(a, b) ==
    CASE a = "Text" \/ b = "Text" -> "Text"
      [] a # "Text" /\ b # "Text" /\ (a = "Null" \/ b = "Null") ->
            (IF a = "Null" THEN b ELSE a)
      [] {a, b} \cap {"Text", "Null"} = {} /\ a = b -> a
      [] a # b /\ a \in IntTags /\ b \in IntTags ->
            (IF IntRank(a) > IntRank(b) THEN a ELSE b)
      [] {a, b} \cap IntTags # {} /\ {a, b} \cap FloatTags # {} -> "DoublePrecision"
      [] {a, b} = {"Real", "DoublePrecision"} -> "DoublePrecision"
      [] {a, b} = {"Date", "Timestamp"} -> "Timestamp"
      [] OTHER -> "Text"

\* C10: for every ordered pair of tags merge returns what the rule table
\* gives.
C10_MergeFollowsRuleTable == pc = "merged" => merged.ab = RuleTable(ta, tb)

\* C10's case: an integer met a single-precision float.
C10_Witness ==
    /\ pc = "merged"
    /\ ta = "SmallInt" /\ tb = "Real"
    /\ merged.ab = "DoublePrecision"

Generalises(a, b) ==
    \/ a = b
    \/ a = "Null"
    \/ b = "Text"
    \/ a \in IntTags /\ b \in IntTags /\ TagRank(a) <= TagRank(b)
    \/ a \in IntTags \cup {"Real"} /\ b = "DoublePrecision"
    \/ a = "Date" /\ b = "Timestamp"

RECURSIVE UpdateAll(_, _)
UpdateAll(c, vs) ==
    IF vs = <<>> THEN c
    ELSE UpdateAll(ColumnSchemaUpdate(c, vs[1]), Tail(vs))

\* C12: the order of observation does not matter: the values a column has
\* observed, given to a fresh column in any other order, leave it with the
\* same sql_type, sample_count and null_count.
C12_ObservationOrderIrrelevant ==
    pc = "observing" =>
        \A perm \in Permutations(1..Len(observed)) :
            LET other == UpdateAll(ColumnSchemaNew,
                                   [i \in 1..Len(observed) |-> observed[perm[i]]])
            IN  /\ other.sql_type = column.sql_type
                /\ other.sample_count = column.sample_count
                /\ other.null_count = column.null_count

\* C12's case: three values of three different tags, a null among them.
C12_Witness ==
    /\ pc = "observing"
    /\ observed = <<<<"1">>, <<"3", ".", "1", "4">>, <<>>>>
    /\ column.sql_type = "DoublePrecision"
    /\ column.sample_count = 3
    /\ column.null_count = 1

\* The observed values but the last n.
ButLast(n) == SubSeq(observed, 1, Len(observed) - n)

\* All of the values are integers that fit in 16 bits.
AllFit16(vs) == \A i \in 1..Len(vs) : ParsesInt(vs[i], I16Max, I16Min)

\* A value that reads as a number, whole or not.
IsNumeric(v) == InferFromStr(v) \in IntTags \cup FloatTags

Is32768(v) == v = <<"3", "2", "7", "6", "8">>

C14_NullExactlyForNullSpellings ==
    pc \in {"inferred", "emitted"} =>
        (inferred = "Null" <=>
            \/ value = <<>>
            \/ EqIgnoreAsciiCase(value, <<"n", "u", "l", "l">>)
            \/ value = <<"\\", "N">>)

\* C20 as stated: a value the inference pass classified as Null is written
\* by rows_to_csv as the empty, unquoted token.
C20_NullEmittedAsEmptyToken ==
    (pc = "emitted" /\ inferred = "Null") => token = <<>>

\* C15 as stated: the inference pass never pulls more than sample_size rows
\* from the reader, and when it ends on a file of M data rows under a header
\* it has pulled min(sample_size, M) rows and observed each of them.
C15_InferencePullsAtMostSample ==
    /\ pulled <= sample_size
    /\ (pc = "prepare" /\ has_headers) =>
          /\ pulled = Min(sample_size, Len(file) - 1)
          /\ count = pulled
          /\ Len(sampled) = pulled

\* The states in which run has returned.
RunReturned == pc \in {"failed_early", "failed_load", "done", "done_dry"}

\* C18 as stated: a run whose table name fails validation ends with the
\* InvalidTableName error, and no I/O has been done when it is raised.
C18_InvalidNameBeforeAnyIo ==
    /\ outcome.kind = "InvalidTableName" => io = {}
    /\ (RunReturned /\ ValidateTableName(table_name) # NoError)
          => outcome.kind = "InvalidTableName"

\* The observed values that infer_from_str classifies as Null.
NullsObserved == {i \in 1..Len(observed) : InferFromStr(observed[i]) = "Null"}

\* C16: after finalize no column has type Null: a column of nulls only is
\* Text and any other column keeps the type its values merged to; a column
\* is nullable exactly when it met a null. The id column of the rows
\* (1, Alice), (2, Bob), ("", Carol) is SmallInt and nullable, the name
\* column Text and not nullable.
C16_FinalizeDefaultsAndNullability ==
    pc = "finalized" =>
        LET before == UpdateAll(ColumnSchemaNew, observed)
        IN  /\ column.sql_type # "Null"
            /\ column.sql_type =
                  (IF Cardinality(NullsObserved) = Len(observed)
                     THEN "Text" ELSE before.sql_type)
            /\ column.null_count = Cardinality(NullsObserved)
            /\ column.nullable <=> column.null_count > 0
            /\ observed = <<<<"1">>, <<"2">>, <<>>>>
                  => column.sql_type = "SmallInt" /\ column.nullable
            /\ observed = <<<<"A", "l", "i", "c", "e">>, <<"B", "o", "b">>,
                            <<"C", "a", "r", "o", "l">>>>
                  => column.sql_type = "Text" /\ ~column.nullable

\* C16's case: the id column of the three rows, finalized.
C16_Witness ==
    /\ pc = "finalized"
    /\ observed = <<<<"1">>, <<"2">>, <<>>>>
    /\ column.sql_type = "SmallInt"
    /\ column.nullable

\* The names the claim accepts.
Acceptable(name) ==
    /\ name # <<>>
    /\ IsAlphabetic(name[1]) \/ name[1] = "_"
    /\ \A i \in 1..Len(name) : IsAlphanumeric(name[i]) \/ name[i] = "_"
    /\ \A k \in Keywords : ~EqIgnoreAsciiCase(name, k)

\* C17: validate_table_name accepts a name exactly when it is non-empty,
\* starts with a letter or an underscore, is made of letters, digits and
\* underscores, and is none of the eight keywords in any case; every other
\* name gets InvalidTableName. users and _temp pass; the empty name,
\* 123users, user-data and select do not.
C17_TableNameValidation ==
    pc = "validated" =>
        /\ name_result = NoError <=> Acceptable(table_name)
        /\ name_result # NoError => name_result.kind = "InvalidTableName"
        /\ table_name \in {<<"u", "s", "e", "r", "s">>, <<"_", "t", "e", "m", "p">>}
              => name_result = NoError
        /\ table_name \in {<<>>, <<"1", "2", "3", "u", "s", "e", "r", "s">>,
                           <<"u", "s", "e", "r", "-", "d", "a", "t", "a">>,
                           <<"s", "e", "l", "e", "c", "t">>}
              => name_result.kind = "InvalidTableName"

\* C17's case: a keyword in lower case is rejected.
C17_Witness ==
    /\ pc = "validated"
    /\ table_name = <<"s", "e", "l", "e", "c", "t">>
    /\ name_result.kind = "InvalidTableName"

\* A standard CSV reader on the characters from position i on: fields are
\* separated by commas; a record ends at a line feed, a carriage return or
\* the two together; a field that opens with a quote runs to its closing
\* quote, two quotes inside it standing for one.
RECURSIVE ReadCsv(_, _, _, _, _, _)
ReadCsv(data, i, quoted, field, row, rows) ==
    IF i > Len(data)
      THEN IF field # <<>> \/ row # <<>> THEN Append(rows, Append(row, field))
           ELSE rows
    ELSE IF quoted
      THEN IF data[i] # "\""
             THEN ReadCsv(data, i + 1, TRUE, Append(field, data[i]), row, rows)
           ELSE IF i < Len(data) /\ data[i + 1] = "\""
             THEN ReadCsv(data, i + 2, TRUE, Append(field, "\""), row, rows)
           ELSE ReadCsv(data, i + 1, FALSE, field, row, rows)
    ELSE IF data[i] = "\"" /\ field = <<>>
      THEN ReadCsv(data, i + 1, TRUE, field, row, rows)
    ELSE IF data[i] = ","
      THEN ReadCsv(data, i + 1, FALSE, <<>>, Append(row, field), rows)
    ELSE IF data[i] = "\n"
      THEN ReadCsv(data, i + 1, FALSE, <<>>, <<>>, Append(rows, Append(row, field)))
    ELSE IF data[i] = "\r"
      THEN ReadCsv(data,
                   IF i < Len(data) /\ data[i + 1] = "\n" THEN i + 2 ELSE i + 1,
                   FALSE, <<>>, <<>>, Append(rows, Append(row, field)))
    ELSE ReadCsv(data, i + 1, FALSE, Append(field, data[i]), row, rows)

DecodeCsv(data) == ReadCsv(data, 1, FALSE, <<>>, <<>>, <<>>)

\* C19 as stated: a standard CSV reader gets back from rows_to_csv's payload
\* the rows it was given, field by field, for fields with commas, quotes,
\* line feeds and carriage returns; the field a,b"c is written "a,b""c".
C19_EncodingRoundTrips ==
    pc = "encoded" =>
        /\ payload.ok
        /\ DecodeCsv(payload.data) = batch
        /\ EscapeField(<<"a", ",", "b", "\"", "c">>)
              = <<"\"", "a", ",", "b", "\"", "\"", "c", "\"">>

\* C21 as stated: whatever the configuration, initial_backoff above
\* max_backoff included, no sleep of process_batch lasts longer than
\* max_backoff. (Stated for the calls whose failures all came from the
\* sink, the ones a retry is meant for.)
C21_NoWaitAboveMaxBackoff ==
    (\A k \in 1..Len(Attempts) : Attempts[k].transfer) =>
        \A i \in 1..Len(Sleeps) : Sleeps[i].dur <= max_backoff

\* The first n elements of a sequence, or all of it.
FirstRows(rows, n) == SubSeq(rows, 1, Min(n, Len(rows)))

\* C22 as stated: with or without a header row, the rows the inference pass
\* observed are the first min(sample_size, M) of the file's M data rows, the
\* rows the load pass then hands to the sink; and with sample_size >= 1 a file
\* with a data row does not end in EmptyFile.
C22_InferenceSeesFirstDataRows ==
    /\ (pc \in {"prepare", "reset", "load", "done_dry", "done"} /\ AllGood(file))
          => sampled = FirstRows(DataRows, sample_size)
    /\ (pc = "done" /\ batch_size >= 1
            /\ \A i \in 1..Len(Attempts) : Attempts[i].ok)
          => sampled = FirstRows(HandedRows, sample_size)
    /\ (pc = "failed_early" /\ outcome.kind = "EmptyFile"
            /\ sample_size >= 1 /\ AllGood(file))
          => Len(DataRows) = 0

====
